---- MODULE Spec2Model ----
(***************************************************************************)
(* Motion-gated and fixed-block video recorders for the Raspberry Pi.      *)
(*                                                                         *)
(* Two specifications share the recorder's state:                          *)
(*   Spec     the motion-gated main loop (video_surveillance.py) driving   *)
(*            VideoRecorder.start / stop, one action per frame tick;       *)
(*   SpecRec  one recorder (either variant) whose start() is taken         *)
(*            statement by statement: ensure_space's loop, the flag, the   *)
(*            file, the timer; stop() closes the session and the clock     *)
(*            moves on to the next start().  SpecRecFair adds that the     *)
(*            thread inside ensure_space keeps running.                    *)
(*                                                                         *)
(* Time is in whole seconds counted from 2018-12-30 00:00:00 (day 0).      *)
(* Free space is in whole gigabytes.                                       *)
(***************************************************************************)
EXTENDS Integers, Sequences, FiniteSets, TLC

VARIABLES
    state,              \* video_surveillance.py: state (State enum)
    new_state,          \* video_surveillance.py: new_state of the last tick
    avg,                \* video_surveillance.py: avg is not None
    last_active_time,   \* video_surveillance.py: last_active_time
    cnts,               \* video_surveillance.py: contours of the last frame
    key,                \* video_surveillance.py: key read by the last tick
    main,               \* the main loop, or in SpecBlk the thread of the button
                        \* handlers: "running", "crashed", "exited"
    now,                \* the wall clock, datetime.datetime.now()
    recording,          \* VideoRecorder.recording / recording
    camera_file,        \* the file picamera is recording to, or NoFile
    annotation_timer,   \* VideoRecorder.annotation_timer: "none","armed","cancelled"
    display,            \* the text on the rainbowhat display
    dir,                \* the videos directory: a set of [name, size]
    free,               \* free gigabytes on the videos file system
    calls,              \* history: the start()/stop() invocations, in order
    ticks,              \* history: frames taken (Spec), events handled (SpecBlk)
    scen,               \* history: position in the 3-motion-ticks scenario
    variant,            \* "motion" (video_recorder.py) or "block" (cameraRecordVideo.py)
    pc,                 \* SpecRec: the statement start() is at
    gigabytes,          \* ensure_space: local gigabytes
    duration,           \* cameraRecordVideo.py: duration
    deleted,            \* history: names removed by the running ensure_space
    sessions,           \* history: <<start time, file name>> of each start()
    nfiles0,            \* history: files in dir when ensure_space was entered
    listed,             \* history: os.listdir calls of the running ensure_space
    recording_timer,    \* recording_timer: "none", "armed", "cancelled"
    rot_deadline,       \* the clock at which recording_timer fires
    channel,            \* touch_a: channel of the last button event, or -1
    cb_pc,              \* the statement update_time_annotation is at, "rotate"
                        \* before continue_recording runs, or "none"
    last_write,         \* history: the callback's last camera write: "none","ok","late"
    cb_err,             \* history: an exception left update_time_annotation
    late_fire,          \* history: a callback tested the flag after stop() had returned
    orphans             \* armed Timers that annotation_timer no longer refers to

vars == <<state, new_state, avg, last_active_time, cnts, key, main, now, recording,
          camera_file, annotation_timer, display, dir, free, calls, ticks,
          scen, variant, pc, gigabytes, duration, deleted, sessions, nfiles0,
          listed, recording_timer, rot_deadline, channel, cb_pc, last_write,
          cb_err, late_fire, orphans>>

ctlVars == <<state, new_state, avg, last_active_time, cnts, key, main, ticks,
            scen>>
recVars == <<variant, pc, gigabytes, duration, deleted, sessions, nfiles0>>
thrVars == <<recording_timer, rot_deadline, channel, cb_pc, last_write, cb_err,
            late_fire, orphans>>

----------------------------------------------------------------------------
(* Bounds of the model.                                                    *)

MaxTicks == 5           \* frames taken by the main loop in one run
MaxSessions == 3        \* start() calls in one run of SpecRec

----------------------------------------------------------------------------
(* Program and configuration constants.                                    *)

FREE_SPACE_GB == 10
ANNOTATION_TIMER_INTERVAL_SEC == 1
READY == "IDLE"
RECORDING == "REC "
BLANK == "    "

idle_timeout == 10
min_area == 5000
x_min == 300
x_max == 660
y_min == 0
y_max == 40

SecondsPerDay == 86400
SecondsPerHour == 3600

\* datetime.datetime(datetime.MINYEAR, 1, 1): midnight, a long time ago.
MinYearTime == 0 - (SecondsPerDay * 20000)

NoFile == <<>>

----------------------------------------------------------------------------
(* datetime: timedelta.seconds and strftime.                               *)

\* timedelta.seconds: the seconds field of a normalised timedelta, 0..86399;
\* the whole days are held in timedelta.days and are not part of it.
TimedeltaSeconds(d) == d % SecondsPerDay

Hour(t)   == (t % SecondsPerDay) \div SecondsPerHour
Minute(t) == (t % SecondsPerHour) \div 60
Second(t) == t % 60

\* The calendar date of day number d (day 0 is 2018-12-30).
DateOf(d) == IF d <= 1 THEN <<2018, 12, 30 + d>> ELSE <<2019, 1, d - 1>>

\* Characters are their code points.
Digit(n)  == 48 + n
Two(n)    == <<Digit(n \div 10), Digit(n % 10)>>
Four(n)   == <<Digit(n \div 1000), Digit((n \div 100) % 10)>> \o Two(n % 100)
ChDash    == 45
ChColon   == 58
ChUnder   == 95
ChDot     == 46
ExtH264   == <<ChDot, 104, 50, 54, 52>>

\* %p: AM before noon, PM from noon on.
AmPm(t) == IF Hour(t) < 12 THEN <<65, 77>> ELSE <<80, 77>>

\* %I: the hour on the 12-hour clock, 01..12.
Hour12(t) == IF Hour(t) % 12 = 0 THEN 12 ELSE Hour(t) % 12

\* now.strftime('%Y-%m-%d_%p_%I-%M-%S.h264'), ':' for the fixed-block recorder.
FileName(t, v) ==
    LET date == DateOf(t \div SecondsPerDay)
        sep  == IF v = "motion" THEN ChDash ELSE ChColon
    IN  Four(date[1]) \o <<ChDash>> \o Two(date[2]) \o <<ChDash>> \o Two(date[3])
        \o <<ChUnder>> \o AmPm(t) \o <<ChUnder>>
        \o Two(Hour12(t)) \o <<sep>> \o Two(Minute(t)) \o <<sep>> \o Two(Second(t))
        \o ExtH264

\* Python's str comparison: code point by code point, a proper prefix first.
RECURSIVE LexLess(_, _)
LexLess(a, b) ==
    IF b = <<>> THEN FALSE
    ELSE IF a = <<>> THEN TRUE
    ELSE IF Head(a) < Head(b) THEN TRUE
    ELSE IF Head(a) > Head(b) THEN FALSE
    ELSE LexLess(Tail(a), Tail(b))

----------------------------------------------------------------------------
(* The videos directory and ensure_space.                                  *)

Names(d) == {f.name : f \in d}

\* sorted(os.listdir(dir))[0]
Oldest_Last(d) == CHOOSE f \in d : \A g \in d : g = f \/ LexLess(g.name, f.name)

Oldest(d) == CHOOSE f \in d : \A g \in d : g = f \/ LexLess(f.name, g.name)

\* while gigabytes < cls.FREE_SPACE_GB
NeedsSpace_Inclusive(g) == g <= FREE_SPACE_GB

NeedsSpace(g) == g < FREE_SPACE_GB

\* os.remove(dir + oldest); gigabytes = get_free_space_GB(dir)
FreeAfterRemove(fr, f) == fr + f.size

\* The whole of ensure_space: the directory and the free space it leaves,
\* and whether files[0] raised IndexError on an empty listing.
RECURSIVE EnsureSpace_NoRaise(_, _)
EnsureSpace_NoRaise(d, fr) ==
    IF ~NeedsSpace(fr) \/ d = {} THEN [dir |-> d, free |-> fr, raised |-> FALSE]
    ELSE EnsureSpace_NoRaise(d \ {Oldest(d)}, FreeAfterRemove(fr, Oldest(d)))

RECURSIVE EnsureSpace(_, _)
EnsureSpace(d, fr) ==
    IF ~NeedsSpace(fr) THEN [dir |-> d, free |-> fr, raised |-> FALSE]
    ELSE IF d = {} THEN [dir |-> d, free |-> fr, raised |-> TRUE]
    ELSE EnsureSpace(d \ {Oldest(d)}, FreeAfterRemove(fr, Oldest(d)))

\* camera.start_recording(fullPathFilename) creates or truncates the file.
WithNewFile(d, fn) == {f \in d : f.name # fn} \cup {[name |-> fn, size |-> 0]}

FreeAfterCreate(d, fr, fn) ==
    IF \E f \in d : f.name = fn
    THEN fr + (CHOOSE f \in d : f.name = fn).size
    ELSE fr

\* The camera writes g gigabytes to the open file.
Grown(d, fn, g) ==
    {IF f.name = fn THEN [name |-> fn, size |-> f.size + g] ELSE f : f \in d}

----------------------------------------------------------------------------
(* VideoRecorder (video_recorder.py), each method taken as a whole.        *)
(* R is the recorder's state; raised tells that the call ended in an        *)
(* exception, with the statements after the raising one not executed.      *)

Recorder ==
    [recording |-> recording, camera_file |-> camera_file,
     annotation_timer |-> annotation_timer, display |-> display,
     dir |-> dir, free |-> free, calls |-> calls, raised |-> FALSE]

\* VideoRecorder.start at clock t.  ensure_space raises IndexError on an
\* empty directory; picamera raises PiCameraAlreadyRecording when a
\* recording is open on the port.
VRStart(R, t, v) ==
    LET es == EnsureSpace(R.dir, R.free)
        R1 == [R EXCEPT !.calls = Append(@, "start"),
                        !.dir = es.dir, !.free = es.free]
        fn == FileName(t, v)
    IN  IF es.raised THEN [R1 EXCEPT !.raised = TRUE]
        ELSE IF R.camera_file # NoFile
        THEN [R1 EXCEPT !.recording = TRUE, !.raised = TRUE]
        ELSE [R1 EXCEPT !.recording = TRUE,
                        !.camera_file = fn,
                        !.dir = WithNewFile(es.dir, fn),
                        !.free = FreeAfterCreate(es.dir, es.free, fn),
                        !.annotation_timer = "armed",
                        !.display = RECORDING]

\* VideoRecorder.stop.  picamera raises PiCameraNotRecording when nothing
\* is being recorded; None has no cancel().
VRStop(R) ==
    LET R1 == [R EXCEPT !.calls = Append(@, "stop"), !.recording = FALSE]
    IN  IF R.camera_file = NoFile THEN [R1 EXCEPT !.raised = TRUE]
        ELSE IF R.annotation_timer = "none"
        THEN [R1 EXCEPT !.camera_file = NoFile, !.raised = TRUE]
        ELSE [R1 EXCEPT !.camera_file = NoFile,
                        !.annotation_timer = "cancelled",
                        !.display = READY]

\* VideoRecorder.quit
VRQuit(R) == [R EXCEPT !.display = BLANK]

----------------------------------------------------------------------------
(* The main loop of video_surveillance.py.                                 *)

\* A contour is its area and the origin of its bounding rectangle.
Contour(a, x, y) == [area |-> a, x |-> x, y |-> y]

\* The frames the camera delivers: nothing moving; a small speck and the
\* timestamp overlay changing; something just below the excluded rectangle;
\* the overlay changing and something just left of the rectangle.
Frames ==
    { {},
      {Contour(min_area - 1, 100, 200), Contour(min_area, x_max, y_max)},
      {Contour(min_area, x_max, y_max + 1)},
      {Contour(min_area + 1, x_min, y_min), Contour(min_area, x_min - 1, y_min)} }

\* The seconds between two frames.
Steps == {idle_timeout, idle_timeout + 1, SecondsPerDay - idle_timeout - 1}

Keys == {"none", "q"}

\* if cv2.contourArea(c) < conf["min_area"]: continue
\* if not (x_min <= x <= x_max and y_min <= y <= y_max): ...
Survives_Strict(c) ==
    /\ ~(c.area < min_area)
    /\ ~(x_min < c.x /\ c.x < x_max /\ y_min < c.y /\ c.y < y_max)

Survives(c) ==
    /\ ~(c.area < min_area)
    /\ ~(x_min <= c.x /\ c.x <= x_max /\ y_min <= c.y /\ c.y <= y_max)

Survivors(frame) == {c \in frame : Survives(c)}

\* if elapsed_time.seconds > conf["idle_timeout"]: IDLE else: RECORDING
Candidate_Inclusive(elapsed) ==
    IF TimedeltaSeconds(elapsed) >= idle_timeout THEN "IDLE" ELSE "RECORDING"

Candidate(elapsed) ==
    IF TimedeltaSeconds(elapsed) > idle_timeout THEN "IDLE" ELSE "RECORDING"

\* new_state after the loop over the contours
NewState(elapsed, frame) ==
    IF Survivors(frame) # {} THEN "ACTIVE" ELSE Candidate(elapsed)

\* last_active_time after the loop over the contours
LastActive_Always(last, t, frame) == t

LastActive(last, t, frame) == IF Survivors(frame) # {} THEN t ELSE last

\* if state == State.IDLE: VideoRecorder.start()
StartNeeded_Always(st) == TRUE

StartNeeded_Never(st) == FALSE

StartNeeded(st) == st = "IDLE"

\* if state != State.IDLE: state = State.IDLE; VideoRecorder.stop()
StopNeeded_Never(st) == FALSE

StopNeeded(st) == st # "IDLE"

\* The state the RECORDING branch assigns.
QuietState_Keep(st) == st

QuietState(st) == "RECORDING"

\* The transition block: the new state and the recorder after it.  An
\* exception out of start() leaves before state is assigned.
Transition(st, ns, R, t) ==
    IF ns = "ACTIVE" THEN
        IF StartNeeded(st)
        THEN LET R1 == VRStart(R, t, "motion")
             IN  [state |-> IF R1.raised THEN st ELSE "ACTIVE", rec |-> R1]
        ELSE [state |-> "ACTIVE", rec |-> R]
    ELSE IF ns = "RECORDING" THEN [state |-> QuietState(st), rec |-> R]
    ELSE IF StopNeeded(st) THEN [state |-> "IDLE", rec |-> VRStop(R)]
    ELSE [state |-> st, rec |-> R]

\* The 'q' key: stop if not idle, blank the display, exit.
OnQuit(st, R) ==
    LET R1 == IF st # "IDLE" THEN VRStop(R) ELSE R
    IN  IF R1.raised THEN R1 ELSE VRQuit(R1)

\* The observer of the scenario "motion on three consecutive frames from
\* IDLE, then none until more than idle_timeout seconds (and less than a
\* day) after the last motion".
\* phase: 0 off, 1..3 frames with motion seen, 4 quiet, 5 done;
\* base: Len(calls) when the scenario began.
ScenNext(sc, st, motion, elapsed, k, ncalls) ==
    IF k = "q" THEN [phase |-> 0, base |-> 0]
    ELSE IF motion THEN
        IF st = "IDLE" THEN [phase |-> 1, base |-> ncalls]
        ELSE IF sc.phase \in {1, 2} THEN [sc EXCEPT !.phase = @ + 1]
        ELSE [phase |-> 0, base |-> 0]
    ELSE IF sc.phase \in {3, 4} THEN
        IF elapsed <= idle_timeout THEN [sc EXCEPT !.phase = 4]
        ELSE IF elapsed < SecondsPerDay THEN [sc EXCEPT !.phase = 5]
        ELSE [phase |-> 0, base |-> 0]
    ELSE [phase |-> 0, base |-> 0]

SetRecorder(R) ==
    /\ recording' = R.recording
    /\ camera_file' = R.camera_file
    /\ annotation_timer' = R.annotation_timer
    /\ display' = R.display
    /\ dir' = R.dir
    /\ free' = R.free
    /\ calls' = R.calls

\* if avg is None: the frame becomes the background model and the pass ends.
NoModelYet_Never == FALSE

NoModelYet == ~avg

\* One pass of the for loop: the frame arrives dt seconds after the last.
Tick(dt, frame, k) ==
    /\ UNCHANGED <<listed, thrVars>>
    /\ main = "running"
    /\ ticks < MaxTicks
    /\ ticks' = ticks + 1
    /\ now' = now + dt
    /\ cnts' = frame
    /\ UNCHANGED recVars
    /\ IF NoModelYet
       THEN /\ avg' = TRUE
            /\ UNCHANGED <<key, state, new_state, last_active_time, main, scen,
                           recording, camera_file, annotation_timer, display,
                           dir, free, calls>>
       ELSE LET timestamp == now + dt
                elapsed == timestamp - last_active_time
                ns == NewState(elapsed, frame)
                tr == Transition(state, ns, Recorder, timestamp)
                qt == IF k = "q" /\ ~tr.rec.raised
                      THEN OnQuit(tr.state, tr.rec) ELSE tr.rec
            IN  /\ avg' = avg
                /\ key' = IF tr.rec.raised THEN key ELSE k
                /\ new_state' = ns
                /\ last_active_time' = LastActive(last_active_time, timestamp, frame)
                /\ state' = tr.state
                /\ SetRecorder(qt)
                /\ main' = IF qt.raised THEN "crashed"
                           ELSE IF k = "q" THEN "exited" ELSE "running"
                /\ scen' = ScenNext(scen, state, Survivors(frame) # {},
                                    elapsed, k, Len(calls))

\* The camera writes g gigabytes of video to the open file.
WriteSizes == {7}

CameraWrites(g) ==
    /\ UNCHANGED <<listed, thrVars>>
    /\ camera_file # NoFile
    /\ g <= free
    /\ free' = free - g
    /\ dir' = Grown(dir, camera_file, g)
    /\ UNCHANGED <<ctlVars, recVars, now, recording, camera_file,
                   annotation_timer, display, calls>>

\* The program starts shortly before midnight of day 0 or shortly before
\* noon of day 1, on a disk with room, on a disk that needs an old file removed,
\* on a full disk with nothing to remove, or on a full disk whose only file
\* is too small to make room.
StartTimes == {SecondsPerDay - 15, SecondsPerDay + (12 * SecondsPerHour) - 5}

OldFile(t, sz) == [name |-> FileName(t, "motion"), size |-> sz]

Disks ==
    { [dir |-> {}, free |-> FREE_SPACE_GB + 5],
      [dir |-> {OldFile(23 * SecondsPerHour, 4)}, free |-> FREE_SPACE_GB - 2],
      [dir |-> {}, free |-> FREE_SPACE_GB - 2],
      [dir |-> {OldFile(22 * SecondsPerHour, 1)}, free |-> FREE_SPACE_GB - 2] }

Init ==
    /\ state = "IDLE"
    /\ new_state = "IDLE"
    /\ avg = FALSE
    /\ last_active_time = MinYearTime
    /\ cnts = {}
    /\ key = "none"
    /\ main = "running"
    /\ now \in StartTimes
    /\ recording = FALSE
    /\ camera_file = NoFile
    /\ annotation_timer = "none"
    /\ display = READY
    /\ \E d \in Disks : dir = d.dir /\ free = d.free
    /\ calls = <<>>
    /\ ticks = 0
    /\ scen = [phase |-> 0, base |-> 0]
    /\ variant = "motion"
    /\ pc = "idle"
    /\ gigabytes = 0
    /\ duration = 0
    /\ deleted = <<>>
    /\ sessions = <<>>
    /\ nfiles0 = 0
    /\ listed = 0
    /\ recording_timer = "none"
    /\ rot_deadline = 0
    /\ channel = 0 - 1
    /\ cb_pc = "none"
    /\ last_write = "none"
    /\ cb_err = FALSE
    /\ late_fire = FALSE
    /\ orphans = 0

Next ==
    \/ \E dt \in Steps, frame \in Frames, k \in Keys : Tick(dt, frame, k)
    \/ \E g \in WriteSizes : CameraWrites(g)

Spec == Init /\ [][Next]_vars

----------------------------------------------------------------------------
(* One recorder, start() statement by statement (video_recorder.py         *)
(* VideoRecorder.start and cameraRecordVideo.py start, which differ in the *)
(* file name's separator and in the duration the latter computes).         *)

\* The statements of start(), in program order: the call of ensure_space,
\* recording = True (with now and duration), camera.start_recording, the
\* annotation timer and display; then the session runs.
StartOrder_OpenFirst == <<"flag", "open", "es_loop", "arm", "started">>

StartOrder_ArmFirst == <<"es_loop", "arm", "flag", "open", "started">>

StartOrder == <<"es_loop", "flag", "open", "arm", "started">>

After(p) ==
    LET i == CHOOSE k \in 1..Len(StartOrder) : StartOrder[k] = p
    IN  StartOrder[i + 1]

\* gigabytes = get_free_space_GB(dir) at the end of the loop body
GigabytesAfterRemove_Stale(g, fr) == g

GigabytesAfterRemove(g, fr) == fr

\* duration: the seconds left in the minute, 60 for none, plus the whole
\* minutes left in the hour.
Duration(t) ==
    LET d == 60 - Second(t)
    IN  (IF d = 0 THEN 60 ELSE d) + ((59 - Minute(t)) * 60)

RECURSIVE SumSizes(_)
SumSizes(d) ==
    IF d = {} THEN 0
    ELSE LET f == CHOOSE x \in d : TRUE IN f.size + SumSizes(d \ {f})

\* start() is called: control enters its first statement.
RecBegin ==
    /\ listed' = 0
    /\ UNCHANGED thrVars
    /\ pc = "idle"
    /\ camera_file = NoFile
    /\ Len(sessions) < MaxSessions
    /\ pc' = StartOrder[1]
    /\ gigabytes' = free
    /\ deleted' = <<>>
    /\ nfiles0' = Cardinality(dir)
    /\ calls' = Append(calls, "start")
    /\ UNCHANGED <<ctlVars, now, recording, camera_file, annotation_timer,
                   display, dir, free, variant, duration, sessions>>

\* One pass of ensure_space's while loop: the first name of the sorted
\* listing is removed and the free space is read again.
EnsureDelete ==
    /\ listed' = listed + 1
    /\ UNCHANGED thrVars
    /\ pc = "es_loop"
    /\ NeedsSpace(gigabytes)
    /\ dir # {}
    /\ dir' = dir \ {Oldest(dir)}
    /\ free' = FreeAfterRemove(free, Oldest(dir))
    /\ gigabytes' = GigabytesAfterRemove(gigabytes, free')
    /\ deleted' = Append(deleted, Oldest(dir).name)
    /\ UNCHANGED <<ctlVars, now, recording, camera_file, annotation_timer,
                   display, calls, variant, pc, duration, sessions, nfiles0>>

\* files[0] on an empty listing: IndexError leaves start().
EnsureRaise ==
    /\ listed' = listed + 1
    /\ UNCHANGED thrVars
    /\ pc = "es_loop"
    /\ NeedsSpace(gigabytes)
    /\ dir = {}
    /\ pc' = "raised"
    /\ UNCHANGED <<ctlVars, now, recording, camera_file, annotation_timer,
                   display, dir, free, calls, variant, gigabytes, duration,
                   deleted, sessions, nfiles0>>

\* The loop condition is false: ensure_space returns.
EnsureReturn ==
    /\ UNCHANGED <<listed, thrVars>>
    /\ pc = "es_loop"
    /\ ~NeedsSpace(gigabytes)
    /\ pc' = After("es_loop")
    /\ UNCHANGED <<ctlVars, now, recording, camera_file, annotation_timer,
                   display, dir, free, calls, variant, gigabytes, duration,
                   deleted, sessions, nfiles0>>

\* recording = True; now = datetime.datetime.now(); duration (fixed-block)
SetFlag ==
    /\ UNCHANGED <<listed, thrVars>>
    /\ pc = "flag"
    /\ recording' = TRUE
    /\ duration' = IF variant = "block" THEN Duration(now) ELSE duration
    /\ pc' = After("flag")
    /\ UNCHANGED <<ctlVars, now, camera_file, annotation_timer, display, dir,
                   free, calls, variant, gigabytes, deleted, sessions, nfiles0>>

\* camera.start_recording(fullPathFilename)
OpenFile ==
    /\ UNCHANGED <<listed, thrVars>>
    /\ pc = "open"
    /\ camera_file' = FileName(now, variant)
    /\ dir' = WithNewFile(dir, FileName(now, variant))
    /\ free' = FreeAfterCreate(dir, free, FileName(now, variant))
    /\ sessions' = Append(sessions, <<now, FileName(now, variant)>>)
    /\ pc' = After("open")
    /\ UNCHANGED <<ctlVars, now, recording, annotation_timer, display, calls,
                   variant, gigabytes, duration, deleted, nfiles0>>

\* Assigning a new Timer to annotation_timer while the one it refers to is
\* armed leaves that one running with no reference to it.
Unreferenced == IF annotation_timer = "armed" THEN 1 ELSE 0

\* annotation_timer = Timer(...); annotation_timer.start(); display
ArmTimer ==
    /\ UNCHANGED <<listed, recording_timer, rot_deadline, channel, cb_pc,
                   last_write, cb_err, late_fire>>
    /\ pc = "arm"
    /\ annotation_timer' = "armed"
    /\ orphans' = orphans + Unreferenced
    /\ display' = RECORDING
    /\ pc' = After("arm")
    /\ UNCHANGED <<ctlVars, now, recording, camera_file, dir, free, calls,
                   variant, gigabytes, duration, deleted, sessions, nfiles0>>

\* record(): after start() has returned,
\* recording_timer = Timer(duration, continue_recording); recording_timer.start()
ArmRotation ==
    /\ pc = "started"
    /\ variant = "block"
    /\ recording_timer # "armed"
    /\ recording_timer' = "armed"
    /\ rot_deadline' = now + duration
    /\ UNCHANGED <<ctlVars, recVars, now, recording, camera_file,
                   annotation_timer, display, dir, free, calls, listed,
                   channel, cb_pc, last_write, cb_err, late_fire, orphans>>

\* record() has returned to the button handler that called it.
RecordReturned == variant = "block" => recording_timer = "armed"

\* The session lengths tried.
Lengths == {1, SecondsPerHour \div 2, 11 * SecondsPerHour}

\* stop() after the session has run for dt seconds.
RecStop(dt) ==
    /\ UNCHANGED <<listed, rot_deadline, channel, cb_pc, last_write, cb_err,
                   late_fire, orphans>>
    /\ pc = "started"
    /\ RecordReturned
    /\ recording_timer' = IF variant = "block" THEN "cancelled"
                          ELSE recording_timer
    /\ now' = now + dt
    /\ recording' = FALSE
    /\ camera_file' = NoFile
    /\ annotation_timer' = "cancelled"
    /\ display' = READY
    /\ calls' = Append(calls, "stop")
    /\ pc' = "idle"
    /\ UNCHANGED <<ctlVars, dir, free, variant, gigabytes, duration, deleted,
                   sessions, nfiles0>>

\* The camera writes to the open file while the session runs.
RecWrites(g) ==
    /\ pc = "started"
    /\ RecordReturned
    /\ CameraWrites(g)

\* Recordings left by earlier runs, on day 0, named by the same start().
Left(t, v, sz) == [name |-> FileName(t, v), size |-> sz]

LeftDirs(v) ==
    { {},
      {Left(SecondsPerHour \div 2, v, 4)},
      {Left(SecondsPerHour \div 2, v, 4), Left(SecondsPerHour, v, 0),
       Left(13 * SecondsPerHour, v, 7)},
      {Left(11 * SecondsPerHour, v, 2), Left(12 * SecondsPerHour, v, 3),
       Left(23 * SecondsPerHour, v, 3)} }

\* start() is first called half past midnight, a second before noon, at
\* noon, or past an hour boundary in the afternoon of day 1.
RecStartTimes ==
    { SecondsPerDay + (SecondsPerHour \div 2),
      SecondsPerDay + (12 * SecondsPerHour) - 1,
      SecondsPerDay + (12 * SecondsPerHour),
      SecondsPerDay + (14 * SecondsPerHour) + (37 * 60) + 10 }

RecFree == {3, FREE_SPACE_GB - 1, FREE_SPACE_GB, FREE_SPACE_GB + 5}

InitRec ==
    /\ state = "IDLE"
    /\ new_state = "IDLE"
    /\ avg = FALSE
    /\ last_active_time = MinYearTime
    /\ cnts = {}
    /\ key = "none"
    /\ main = "running"
    /\ ticks = 0
    /\ scen = [phase |-> 0, base |-> 0]
    /\ variant \in {"motion", "block"}
    /\ now \in RecStartTimes
    /\ recording = FALSE
    /\ camera_file = NoFile
    /\ annotation_timer = "none"
    /\ display = READY
    /\ dir \in LeftDirs(variant)
    /\ free \in RecFree
    /\ calls = <<>>
    /\ pc = "idle"
    /\ gigabytes = 0
    /\ duration = 0
    /\ deleted = <<>>
    /\ sessions = <<>>
    /\ nfiles0 = 0
    /\ listed = 0
    /\ recording_timer = "none"
    /\ rot_deadline = 0
    /\ channel = 0 - 1
    /\ cb_pc = "none"
    /\ last_write = "none"
    /\ cb_err = FALSE
    /\ late_fire = FALSE
    /\ orphans = 0

EnsureStep == EnsureDelete \/ EnsureRaise \/ EnsureReturn

NextRec ==
    \/ RecBegin
    \/ EnsureDelete
    \/ EnsureRaise
    \/ EnsureReturn
    \/ SetFlag
    \/ OpenFile
    \/ ArmTimer
    \/ ArmRotation
    \/ \E dt \in Lengths : RecStop(dt)
    \/ \E g \in WriteSizes : RecWrites(g)

SpecRec == InitRec /\ [][NextRec]_vars

\* The thread inside ensure_space keeps running.
SpecRecFair == SpecRec /\ WF_vars(EnsureStep)

----------------------------------------------------------------------------
(* video_recorder.py: the thread that calls start() and stop(), statement  *)
(* by statement, against the threading.Timer thread that runs              *)
(* update_time_annotation. No lock is taken anywhere in the source, so the *)
(* statements of the two threads interleave freely. One callback runs at a *)
(* time.                                                                   *)

\* The statements of stop(), in program order: recording = False,
\* camera.stop_recording(), annotation_timer.cancel() and display.
StopOrder == <<"stop_flag", "stop_camera", "stop_cancel", "idle">>

AfterStop(p) ==
    LET i == CHOOSE k \in 1..Len(StopOrder) : StopOrder[k] = p
    IN  StopOrder[i + 1]

\* stop() is called on the session, dt seconds after it was started.
StopBegin(dt) ==
    /\ pc = "started"
    /\ pc' = StopOrder[1]
    /\ now' = now + dt
    /\ calls' = Append(calls, "stop")
    /\ UNCHANGED <<ctlVars, recording, camera_file, annotation_timer, display,
                   dir, free, variant, gigabytes, duration, deleted, sessions,
                   nfiles0, listed, thrVars>>

\* cls.recording = False
StopFlag ==
    /\ pc = "stop_flag"
    /\ recording' = FALSE
    /\ pc' = AfterStop("stop_flag")
    /\ UNCHANGED <<ctlVars, now, camera_file, annotation_timer, display, dir,
                   free, calls, variant, gigabytes, duration, deleted,
                   sessions, nfiles0, listed, thrVars>>

\* cls.camera.stop_recording()
StopCamera ==
    /\ pc = "stop_camera"
    /\ camera_file' = NoFile
    /\ pc' = AfterStop("stop_camera")
    /\ UNCHANGED <<ctlVars, now, recording, annotation_timer, display, dir,
                   free, calls, variant, gigabytes, duration, deleted,
                   sessions, nfiles0, listed, thrVars>>

\* Timer.cancel() stops a timer that is still waiting; it does nothing to
\* one whose function has been called.
Cancelled(t) == IF t = "armed" THEN "cancelled" ELSE t

\* cls.annotation_timer.cancel(); display READY
StopCancel ==
    /\ pc = "stop_cancel"
    /\ annotation_timer' = Cancelled(annotation_timer)
    /\ display' = READY
    /\ pc' = AfterStop("stop_cancel")
    /\ UNCHANGED <<ctlVars, now, recording, camera_file, dir, free, calls,
                   variant, gigabytes, duration, deleted, sessions, nfiles0,
                   listed, thrVars>>

\* The statements of update_time_annotation, in program order: the test of
\* cls.recording, the annotate_text assignment, wait_recording(0) and the
\* new Timer.
CallbackOrder == <<"check", "write", "wait", "rearm", "none">>

AfterCb(p) ==
    LET i == CHOOSE k \in 1..Len(CallbackOrder) : CallbackOrder[k] = p
    IN  CallbackOrder[i + 1]

\* An armed Timer's interval ends and its thread calls the function: the
\* one annotation_timer refers to (ref) or one it no longer refers to.
TimerFire(ref) ==
    /\ cb_pc = "none"
    /\ IF ref
       THEN /\ annotation_timer = "armed"
            /\ annotation_timer' = "fired"
            /\ orphans' = orphans
       ELSE /\ orphans > 0
            /\ orphans' = orphans - 1
            /\ annotation_timer' = annotation_timer
    /\ cb_pc' = CallbackOrder[1]
    /\ UNCHANGED <<ctlVars, recVars, now, recording, camera_file, display,
                   dir, free, calls, listed, recording_timer, rot_deadline,
                   channel, last_write, cb_err, late_fire>>

\* The value update_time_annotation reads for its test.
FlagSeen_Always == TRUE

FlagSeen == recording

\* if cls.recording:
CbCheck ==
    /\ cb_pc = "check"
    /\ cb_pc' = IF FlagSeen THEN AfterCb("check") ELSE "none"
    /\ late_fire' = (late_fire \/ pc = "idle")
    /\ UNCHANGED <<ctlVars, recVars, now, recording, camera_file,
                   annotation_timer, display, dir, free, calls, listed,
                   recording_timer, rot_deadline, channel, last_write, cb_err,
                   orphans>>

\* cls.camera.annotate_text = ...: "late" when no recording is open.
CbWrite ==
    /\ cb_pc = "write"
    /\ last_write' = IF camera_file = NoFile THEN "late" ELSE "ok"
    /\ cb_pc' = AfterCb("write")
    /\ UNCHANGED <<ctlVars, recVars, now, recording, camera_file,
                   annotation_timer, display, dir, free, calls, listed,
                   recording_timer, rot_deadline, channel, cb_err, late_fire,
                   orphans>>

\* cls.camera.wait_recording(0): picamera raises PiCameraNotRecording when
\* no recording is open, which ends the thread.
CbWait ==
    /\ cb_pc = "wait"
    /\ cb_err' = (cb_err \/ camera_file = NoFile)
    /\ cb_pc' = IF camera_file = NoFile THEN "none" ELSE AfterCb("wait")
    /\ UNCHANGED <<ctlVars, recVars, now, recording, camera_file,
                   annotation_timer, display, dir, free, calls, listed,
                   recording_timer, rot_deadline, channel, last_write,
                   late_fire, orphans>>

\* cls.annotation_timer = Timer(...); cls.annotation_timer.start()
CbRearm ==
    /\ cb_pc = "rearm"
    /\ annotation_timer' = "armed"
    /\ orphans' = orphans + Unreferenced
    /\ cb_pc' = AfterCb("rearm")
    /\ UNCHANGED <<ctlVars, recVars, now, recording, camera_file, display,
                   dir, free, calls, listed, recording_timer, rot_deadline,
                   channel, last_write, cb_err, late_fire>>

\* The motion-gated recorder on a disk that needs its old file removed or
\* on a full disk with nothing to remove.
InitThr ==
    /\ InitRec
    /\ variant = "motion"
    /\ now = SecondsPerDay + (12 * SecondsPerHour) - 1
    /\ \/ dir = {Left(SecondsPerHour \div 2, variant, 4)} /\ free = FREE_SPACE_GB - 1
       \/ dir = {} /\ free = FREE_SPACE_GB - 1

NextThr ==
    \/ RecBegin
    \/ EnsureDelete
    \/ EnsureRaise
    \/ EnsureReturn
    \/ SetFlag
    \/ OpenFile
    \/ ArmTimer
    \/ \E dt \in {ANNOTATION_TIMER_INTERVAL_SEC} : StopBegin(dt)
    \/ StopFlag
    \/ StopCamera
    \/ StopCancel
    \/ \E ref \in BOOLEAN : TimerFire(ref)
    \/ CbCheck
    \/ CbWrite
    \/ CbWait
    \/ CbRearm

SpecThr == InitThr /\ [][NextThr]_vars

----------------------------------------------------------------------------
(* The button handlers and the rotation timer: cameraRecordVideo.py        *)
(* (variant "block") and touch_a of video_recorder.py (variant "motion"),  *)
(* each handler taken as a whole. The clock is in whole seconds; lat is    *)
(* the time that passes between two statements of a handler.               *)

BLK_READY == "RDY"
BLK_RECORDING == "REC"

\* The script's state; exit tells how the handler's thread has ended.
Script ==
    [recording |-> recording, camera_file |-> camera_file,
     annotation_timer |-> annotation_timer, display |-> display,
     dir |-> dir, free |-> free, calls |-> calls, raised |-> FALSE,
     recording_timer |-> recording_timer, rot_deadline |-> rot_deadline,
     duration |-> duration, exit |-> main, orphans |-> orphans]

\* start() at clock t: as VideoRecorder.start, with the duration computed
\* after recording = True and before camera.start_recording.
BlkStart(B, t) ==
    LET S == VRStart(B, t, "block")
    IN  IF EnsureSpace(B.dir, B.free).raised THEN S
        ELSE IF S.raised THEN [S EXCEPT !.duration = Duration(t)]
        ELSE [S EXCEPT !.duration = Duration(t), !.display = BLK_RECORDING,
                       !.orphans = @ + (IF B.annotation_timer = "armed"
                                        THEN 1 ELSE 0)]

\* The Timer(duration, continue_recording) started lat seconds after start()
\* read the clock.
Rearmed(S, t, lat) ==
    IF S.raised THEN S
    ELSE [S EXCEPT !.recording_timer = "armed",
                   !.rot_deadline = t + lat + S.duration]

\* record()
BlkRecord(B, t, lat) == Rearmed(BlkStart(B, t), t, lat)

\* stop(): the flag is left as it is.
BlkStop(B) ==
    LET B1 == [B EXCEPT !.calls = Append(@, "stop")]
    IN  IF B.camera_file = NoFile THEN [B1 EXCEPT !.raised = TRUE]
        ELSE [B1 EXCEPT !.camera_file = NoFile,
                        !.display = BLK_READY,
                        !.annotation_timer = Cancelled(@),
                        !.recording_timer = Cancelled(@)]

\* continue_recording()
BlkContinue(B, t, lat) ==
    IF B.camera_file = NoFile THEN [B EXCEPT !.raised = TRUE]
    ELSE Rearmed(BlkStart([B EXCEPT !.camera_file = NoFile], t), t, lat)

\* sys.exit(0) at the end of a handler, unless an exception came first.
Exits(B) == IF B.raised THEN B ELSE [B EXCEPT !.exit = "exited"]
Cleared(B) == IF B.raised THEN B ELSE [B EXCEPT !.display = BLANK]

\* Timers the reference has lost find recording False at their next firing,
\* an interval later, and end.
ChainsEnd(B) == IF B.raised THEN B ELSE [B EXCEPT !.orphans = 0]

\* touch_a of cameraRecordVideo.py
TouchA(B, ch, t, lat) ==
    IF ch = 0 THEN BlkRecord(B, t, lat)
    ELSE IF ch = 1
    THEN IF B.recording
         THEN ChainsEnd(BlkStop([B EXCEPT !.recording = FALSE])) ELSE B
    ELSE IF ch = 2
    THEN Exits(Cleared(IF B.recording THEN BlkStop(B) ELSE B))
    ELSE Exits(IF B.recording THEN Cleared(BlkStop(B)) ELSE B)

\* touch_a of video_recorder.py: channel 2 quits, a channel above 2 ends in
\* ValueError, the others do nothing.
VRTouchA(R, ch) ==
    IF ch < 2 THEN R
    ELSE LET S == VRQuit(IF R.recording THEN VRStop(R) ELSE R)
         IN  IF ch = 2 THEN Exits(S) ELSE [S EXCEPT !.raised = TRUE]

Channels == 0..3
Latency == {0, 1}
BlkSteps == {1, 50}

SetScript(B) ==
    /\ SetRecorder(B)
    /\ recording_timer' = B.recording_timer
    /\ rot_deadline' = B.rot_deadline
    /\ duration' = B.duration
    /\ orphans' = B.orphans
    /\ sessions' = IF B.camera_file # NoFile /\ B.camera_file # camera_file
                   THEN Append(sessions, <<now', B.camera_file>>)
                   ELSE sessions

\* A button is touched dt seconds after the last event, before the rotation
\* timer is due.
Touch(ch, dt, lat) ==
    /\ main = "running"
    /\ ticks < MaxTicks
    /\ recording_timer = "armed" => now + dt < rot_deadline
    /\ ticks' = ticks + 1
    /\ now' = now + dt
    /\ channel' = ch
    /\ LET B == IF variant = "block" THEN TouchA(Script, ch, now + dt, lat)
                ELSE VRTouchA(Script, ch)
       IN  /\ SetScript(B)
           /\ main' = IF B.raised THEN "crashed" ELSE B.exit
    /\ UNCHANGED <<state, new_state, avg, last_active_time, cnts, key, scen,
                   variant, pc, gigabytes, deleted, nfiles0, listed, cb_pc,
                   last_write, cb_err, late_fire>>

\* The rotation timer's interval ends at its deadline: its thread is about
\* to call continue_recording.
RotFire ==
    /\ main = "running"
    /\ ticks < MaxTicks
    /\ recording_timer = "armed"
    /\ now <= rot_deadline
    /\ now' = rot_deadline
    /\ recording_timer' = "fired"
    /\ cb_pc' = "rotate"
    /\ UNCHANGED <<ctlVars, recVars, recording, camera_file, annotation_timer,
                   display, dir, free, calls, listed, rot_deadline, channel,
                   last_write, cb_err, late_fire, orphans>>

\* The timer's thread runs continue_recording, which reads the clock lat
\* seconds later; an exception ends that thread only.
Rotate(lat) ==
    /\ cb_pc = "rotate"
    /\ ticks' = ticks + 1
    /\ now' = now + lat
    /\ channel' = 0 - 1
    /\ cb_pc' = "none"
    /\ LET B == BlkContinue(Script, now + lat, lat)
       IN  /\ SetScript(B)
           /\ cb_err' = (cb_err \/ B.raised)
    /\ main' = main
    /\ UNCHANGED <<state, new_state, avg, last_active_time, cnts, key, scen,
                   variant, pc, gigabytes, deleted, nfiles0, listed,
                   last_write, late_fire>>

\* video_surveillance.py's main loop calls VideoRecorder.start() on motion.
LoopStart(dt) ==
    /\ main = "running"
    /\ ticks < MaxTicks
    /\ variant = "motion"
    /\ ~recording
    /\ ticks' = ticks + 1
    /\ now' = now + dt
    /\ channel' = 0 - 1
    /\ LET B == VRStart(Script, now + dt, variant)
       IN  /\ SetScript(B)
           /\ main' = IF B.raised THEN "crashed" ELSE B.exit
    /\ UNCHANGED <<state, new_state, avg, last_active_time, cnts, key, scen,
                   variant, pc, gigabytes, deleted, nfiles0, listed, cb_pc,
                   last_write, cb_err, late_fire>>

\* The first event comes at 14:00:00, 14:37:10 or 14:59:59 of day 1, or 50 s
\* later.
BlkStartTimes ==
    { SecondsPerDay + (14 * SecondsPerHour) - 1,
      SecondsPerDay + (14 * SecondsPerHour) + (37 * 60) + 9,
      SecondsPerDay + (14 * SecondsPerHour) + (59 * 60) + 58 }

InitBlk ==
    /\ state = "IDLE"
    /\ new_state = "IDLE"
    /\ avg = FALSE
    /\ last_active_time = MinYearTime
    /\ cnts = {}
    /\ key = "none"
    /\ main = "running"
    /\ ticks = 0
    /\ scen = [phase |-> 0, base |-> 0]
    /\ variant \in {"motion", "block"}
    /\ now \in BlkStartTimes
    /\ recording = FALSE
    /\ camera_file = NoFile
    /\ annotation_timer = "none"
    /\ display = IF variant = "block" THEN BLK_READY ELSE READY
    /\ dir \in {{}, {Left(SecondsPerHour \div 2, variant, 4)}}
    /\ free = IF dir = {} THEN FREE_SPACE_GB + 5 ELSE FREE_SPACE_GB - 2
    /\ calls = <<>>
    /\ pc = "idle"
    /\ gigabytes = 0
    /\ duration = 0
    /\ deleted = <<>>
    /\ sessions = <<>>
    /\ nfiles0 = 0
    /\ listed = 0
    /\ recording_timer = "none"
    /\ rot_deadline = 0
    /\ channel = 0 - 1
    /\ cb_pc = "none"
    /\ last_write = "none"
    /\ cb_err = FALSE
    /\ late_fire = FALSE
    /\ orphans = 0

NextBlk ==
    \/ \E ch \in Channels, dt \in BlkSteps, lat \in Latency : Touch(ch, dt, lat)
    \/ RotFire
    \/ \E lat \in Latency : Rotate(lat)
    \/ \E dt \in BlkSteps : LoopStart(dt)

SpecBlk == InitBlk /\ [][NextBlk]_vars

----------------------------------------------------------------------------
(* The main loop of video_surveillance.py with button C of                 *)
(* video_recorder.py, whose handler runs on the touch library's thread.    *)

\* Button C is touched between two frames. sys.exit(0) raises SystemExit in
\* the thread that runs the handler; ends tells whether that ends the
\* process, which the touch library decides, or only the handler's thread.
ButtonC(ends) ==
    /\ main = "running"
    /\ channel = 0 - 1
    /\ channel' = 2
    /\ LET B == VRTouchA(Script, 2)
       IN  /\ SetRecorder(B)
           /\ cb_err' = (cb_err \/ B.raised)
           /\ main' = IF ends /\ ~B.raised THEN "exited" ELSE main
    /\ UNCHANGED <<state, new_state, avg, last_active_time, cnts, key, ticks,
                   scen, now, recVars, listed, recording_timer, rot_deadline,
                   cb_pc, last_write, late_fire, orphans>>

\* The program starts shortly before noon of day 1 on an empty disk with
\* room.
InitBtn ==
    /\ Init
    /\ now = SecondsPerDay + (12 * SecondsPerHour) - 5
    /\ dir = {}
    /\ free = FREE_SPACE_GB + 5

NextBtn ==
    \/ \E dt \in Steps, frame \in Frames, k \in Keys : Tick(dt, frame, k)
    \/ \E ends \in BOOLEAN : ButtonC(ends)

SpecBtn == InitBtn /\ [][NextBtn]_vars

----------------------------------------------------------------------------
(* Properties of the motion-gated main loop, checked under Spec.           *)

SessionOpen == recording /\ camera_file # NoFile

\* The frame just taken went through the transition block.
TickStep == ticks' = ticks + 1 /\ avg

\* The calls made by the step, and the start() calls among them.
NewCalls == SubSeq(calls', Len(calls) + 1, Len(calls'))
StartsIn(c) == Cardinality({i \in 1..Len(c) : c[i] = "start"})

\* C1: at every tick boundary of the main loop the controller is not IDLE
\* if and only if a recording session is open (flag set, camera recording).
C1_StateIffSession ==
    main = "running" => ((state # "IDLE") <=> SessionOpen)

\* C2: camera.start_recording is never issued while a recording that was
\* started before has not been stopped: a step that calls start() begins
\* with no file open on the camera.
C2_AtMostOneSession ==
    [][StartsIn(NewCalls) > 0
         => camera_file = NoFile /\ StartsIn(NewCalls) = 1]_vars

C2_Witness ==
    /\ calls = <<"start", "stop", "start">>
    /\ camera_file # NoFile
    /\ Cardinality(dir) >= 2

\* A frame without surviving motion taken at most idle_timeout seconds after
\* the last motion, the 'q' key not pressed.
QuietWithin ==
    /\ TickStep
    /\ Survivors(cnts') = {}
    /\ now' - last_active_time <= idle_timeout
    /\ key' # "q"

\* C3 as stated: on such a tick the state after the tick is the state before.
C3_Orig_StateSame == [][QuietWithin => state' = state]_vars

\* C3 (amended): on a tick with no surviving motion and at most idle_timeout
\* seconds since the last motion the state before is ACTIVE or RECORDING and
\* the state after is RECORDING; it does not become IDLE, and neither stop()
\* nor start() is called, so the session stays as it was.
C3_QuietKeepsRecording ==
    [][QuietWithin =>
          /\ state \in {"ACTIVE", "RECORDING"}
          /\ state' = "RECORDING"
          /\ calls' = calls
          /\ recording' = recording
          /\ camera_file' = camera_file]_vars

C3_Witness ==
    /\ state = "RECORDING"
    /\ SessionOpen
    /\ Survivors(cnts) = {}
    /\ now - last_active_time = idle_timeout
    /\ main = "running"

\* A frame with surviving motion taken while the controller is IDLE.
IdleMotionTick == TickStep /\ state = "IDLE" /\ Survivors(cnts') # {}

\* The tick opened the file named after its timestamp.
OpenedNow ==
    /\ camera_file = NoFile
    /\ FileName(now', "motion") \in Names(dir')
    /\ FileName(now', "motion") \notin Names(dir)
    /\ camera_file' \in {NoFile, FileName(now', "motion")}

\* C4 as stated: on every tick from IDLE with surviving motion start() is
\* invoked once, one session is opened and the state after is ACTIVE.
C4_Orig_IdleToActive ==
    [][IdleMotionTick =>
          StartsIn(NewCalls) = 1 /\ OpenedNow /\ state' = "ACTIVE"]_vars

\* C4 (amended): on every tick from IDLE with surviving motion start() is
\* invoked exactly once; when ensure_space can make room, exactly one session
\* is opened and the state after is ACTIVE; when it cannot (the directory
\* runs empty below the threshold) start() ends in an error, no session is
\* opened and the state stays IDLE.
C4_IdleToActive ==
    [][IdleMotionTick =>
          /\ StartsIn(NewCalls) = 1
          /\ IF EnsureSpace(dir, free).raised
             THEN /\ state' = "IDLE"
                  /\ camera_file' = NoFile
                  /\ ~recording'
                  /\ main' = "crashed"
             ELSE /\ OpenedNow
                  /\ state' = "ACTIVE"]_vars

C4_Witness ==
    /\ state = "ACTIVE"
    /\ calls = <<"start">>
    /\ camera_file = FileName(now, "motion")
    /\ SessionOpen

\* C6: from IDLE, motion on three consecutive frames and then none until
\* more than idle_timeout seconds after the last motion: one start() and one
\* stop() over the run, in that order, and the state ends IDLE.
C6_OneStartOneStop ==
    scen.phase = 5 =>
        /\ SubSeq(calls, scen.base + 1, Len(calls)) = <<"start", "stop">>
        /\ state = "IDLE"
        /\ ~recording
        /\ camera_file = NoFile

C6_Witness ==
    /\ scen.phase = 5
    /\ ticks >= 5
    /\ now - last_active_time > idle_timeout

\* C7: stop() is never invoked with no session open and start() never with
\* one open: the calls alternate, beginning with start.
C7_CallsAlternate ==
    \A i \in 1..Len(calls) :
        calls[i] = (IF i % 2 = 1 THEN "start" ELSE "stop")

----------------------------------------------------------------------------
(* Properties of start() and ensure_space, checked under SpecRec.          *)

\* ensure_space has returned to start(): its loop condition was false.
EnsureReturned == pc \in {"flag", "open"} /\ ~NeedsSpace(gigabytes)

\* C5: ensure_space runs to completion before recording is set and before
\* camera.start_recording opens the file; nothing is deleted once the flag
\* is set or the file is open.
C5_EnsureBeforeOpen ==
    [][/\ (recording' /\ ~recording) => EnsureReturned
       /\ (camera_file' # NoFile /\ camera_file = NoFile)
             => (EnsureReturned /\ recording)
       /\ (deleted' # deleted /\ deleted' # <<>>)
             => (~recording /\ camera_file = NoFile)]_vars

C5_Witness ==
    /\ pc = "started"
    /\ deleted # <<>>
    /\ camera_file # NoFile
    /\ recording

\* Deleting every file would reach the threshold.
EnoughToFree == free + SumSizes(dir) >= FREE_SPACE_GB

\* C8: when deleting all files would bring the free space to FREE_SPACE_GB,
\* ensure_space terminates after at most as many deletions as there were
\* files, and the free space is then at least FREE_SPACE_GB.
C8_EnsureTerminates ==
    [](pc = "es_loop" /\ EnoughToFree
         => <>(/\ pc = "flag"
               /\ free >= FREE_SPACE_GB
               /\ Len(deleted) <= nfiles0))

C8_Witness ==
    /\ pc = "flag"
    /\ Len(deleted) >= 2
    /\ free >= FREE_SPACE_GB
    /\ dir # {}

\* C9: every deletion removes the lexically smallest name in the directory
\* at that moment, happens only below the threshold, and the names deleted
\* by one call are strictly increasing.
C9_OldestFirst ==
    [][(deleted' # deleted /\ deleted' # <<>>) =>
          LET n == deleted'[Len(deleted')]
          IN  /\ n \in Names(dir)
              /\ n \notin Names(dir')
              /\ \A f \in dir : f.name = n \/ LexLess(n, f.name)
              /\ free < FREE_SPACE_GB
              /\ Cardinality(dir') = Cardinality(dir) - 1
              /\ deleted # <<>> => LexLess(deleted[Len(deleted)], n)]_vars

C9_Witness ==
    /\ pc = "started"
    /\ Len(deleted) = 2
    /\ LexLess(deleted[1], deleted[2])
    /\ Cardinality(dir) = 2

\* C10: a session started earlier has the lexically smaller file name.
C10_NamesChronological ==
    \A i, j \in 1..Len(sessions) :
        sessions[i][1] < sessions[j][1]
            => LexLess(sessions[i][2], sessions[j][2])

----------------------------------------------------------------------------
(* Further properties of ensure_space and of the main loop.                *)

\* C11: when the free space is already at least FREE_SPACE_GB, ensure_space
\* returns at once: it deletes nothing, does not list the directory and
\* leaves the directory as it was.
C11_EnoughReturnsAtOnce ==
    [][(pc = "es_loop" /\ listed = 0 /\ free >= FREE_SPACE_GB) =>
          /\ pc' = "flag"
          /\ listed' = 0
          /\ deleted' = <<>>
          /\ dir' = dir
          /\ free' = free]_vars

C11_Witness ==
    /\ pc = "flag"
    /\ listed = 0
    /\ deleted = <<>>
    /\ free = FREE_SPACE_GB
    /\ Cardinality(dir) = nfiles0
    /\ dir # {}

\* C12: when the directory is or becomes empty with the free space still
\* below FREE_SPACE_GB, ensure_space ends in an error and the start() of the
\* tick is aborted: no file is opened, the flag stays False, no annotation
\* timer is armed and the controller stays IDLE.
C12_ExhaustedAborts ==
    [][(IdleMotionTick /\ free + SumSizes(dir) < FREE_SPACE_GB) =>
          /\ main' = "crashed"
          /\ state' = "IDLE"
          /\ ~recording'
          /\ camera_file' = NoFile
          /\ annotation_timer' # "armed"
          /\ dir' = {}
          /\ free' < FREE_SPACE_GB
          /\ display' = display]_vars

C12_Witness ==
    /\ main = "crashed"
    /\ state = "IDLE"
    /\ new_state = "ACTIVE"
    /\ calls = <<"start">>
    /\ dir = {}
    /\ free = FREE_SPACE_GB - 1
    /\ ~recording

\* Every contour of the frame is too small or has its origin inside the
\* excluded rectangle, and there is at least one.
OnlyExcluded(frame) ==
    /\ frame # {}
    /\ \A c \in frame :
          \/ c.area < min_area
          \/ (x_min <= c.x /\ c.x <= x_max /\ y_min <= c.y /\ c.y <= y_max)

\* C13: a tick whose contours are all too small or have their origin inside
\* the excluded rectangle does not make the candidate ACTIVE, does not call
\* start() and leaves last_active_time alone: the candidate is the one of a
\* tick without motion.
C13_ExcludedIsNoMotion ==
    [][(TickStep /\ OnlyExcluded(cnts')) =>
          /\ new_state' # "ACTIVE"
          /\ new_state' = (IF TimedeltaSeconds(now' - last_active_time) > idle_timeout
                           THEN "IDLE" ELSE "RECORDING")
          /\ StartsIn(NewCalls) = 0
          /\ last_active_time' = last_active_time
          /\ (state = "IDLE" => state' # "ACTIVE")]_vars

C13_Witness ==
    /\ avg
    /\ ticks >= 2
    /\ OnlyExcluded(cnts)
    /\ \E c \in cnts : c.area >= min_area /\ c.x = x_max /\ c.y = y_max
    /\ state = "IDLE"
    /\ new_state = "IDLE"
    /\ main = "running"

\* C17: a timer of the session is armed only when the session is fully
\* established: while a timer of start() or record() is armed the flag is
\* set and the file is open, and the rotation timer is armed after the
\* annotation timer, once start() has returned.
C17_EstablishedBeforeArmed ==
    /\ (annotation_timer = "armed" \/ recording_timer = "armed")
          => (recording /\ camera_file # NoFile)
    /\ recording_timer = "armed"
          => (annotation_timer = "armed" /\ pc = "started")
    /\ (pc \in {"flag", "open", "arm"})
          => (annotation_timer # "armed" /\ recording_timer # "armed")

C17_Witness ==
    /\ variant = "block"
    /\ pc = "started"
    /\ Len(sessions) = 2
    /\ recording /\ camera_file # NoFile
    /\ annotation_timer = "armed"
    /\ recording_timer = "armed"
    /\ rot_deadline = now + duration

----------------------------------------------------------------------------
(* Properties of the annotation callback against start() and stop(),       *)
(* checked under SpecThr.                                                  *)

\* Timers that will still call update_time_annotation.
Pending == orphans + Unreferenced

\* C15: a callback that runs its test after stop() has returned (and before
\* start() is called again) ends there: it writes nothing to the camera,
\* raises nothing and arms no timer, so every timer left pending by the
\* stopped session fires once and is not replaced.
C15_LateFiringIsNoOp ==
    [][(cb_pc = "check" /\ cb_pc' # "check" /\ pc = "idle") =>
          /\ cb_pc' = "none"
          /\ last_write' = last_write
          /\ cb_err' = cb_err
          /\ Pending' = Pending
          /\ annotation_timer' = annotation_timer
          /\ camera_file' = NoFile
          /\ ~recording']_vars

C15_Witness ==
    /\ late_fire
    /\ pc = "idle"
    /\ cb_pc = "none"
    /\ calls = <<"start", "stop">>
    /\ annotation_timer = "fired"
    /\ Pending = 0
    /\ last_write = "none"
    /\ ~cb_err

\* C16: no callback assigns annotate_text or calls wait_recording once
\* stop() has closed the file with camera.stop_recording(): every such step
\* of the callback taken while stop() is past that statement, or has
\* returned, finds a recording open.
C16_NoCallbackAfterClose ==
    [][(/\ cb_pc \in {"write", "wait"}
        /\ cb_pc' # cb_pc
        /\ pc \in {"stop_cancel", "idle"}) => camera_file # NoFile]_vars

\* A thread has executed the first statement of the part of start(), stop()
\* or update_time_annotation that reads or changes the session, and not yet
\* the last.
InStart == pc \in {"open", "arm"}
InStop == pc \in {"stop_camera", "stop_cancel"}
InCallback == cb_pc \in {"write", "wait", "rearm"}

\* C18: at most one of start(), stop() and update_time_annotation is inside
\* its session-mutating section at a time.
C18_OneMutator == ~((InStart \/ InStop) /\ InCallback)

----------------------------------------------------------------------------
(* Properties of the quit paths.                                           *)

\* C19: on a tick that reads the 'q' key the session, if one is open, is
\* stopped and the file closed, stop() is not called when no session is
\* open, and the main loop exits with the display cleared last.
C19_QuitStopsThenClears ==
    [][(TickStep /\ key' = "q") =>
          /\ main' = "exited"
          /\ display' = BLANK
          /\ camera_file' = NoFile
          /\ ~recording'
          /\ (camera_file = NoFile /\ StartsIn(NewCalls) = 0)
                => NewCalls = <<>>]_vars

----------------------------------------------------------------------------
(* Properties of the fixed-block script and of the button handlers,        *)
(* checked under SpecBlk.                                                  *)

\* The step is continue_recording, called by the rotation timer.
RotationStep ==
    /\ variant = "block"
    /\ cb_pc = "rotate"
    /\ cb_pc' = "none"

\* C14: a start() at HH:MM:SS sets duration = 3600 - 60*MM - SS, a value in
\* 1..3600, and the session that the rotation timer starts begins exactly
\* at an hour boundary.
C14_RotationOnTheHour ==
    [][/\ (variant = "block" /\ StartsIn(NewCalls) > 0) =>
             /\ duration' = SecondsPerHour - (60 * Minute(now')) - Second(now')
             /\ duration' \in 1..SecondsPerHour
       /\ (RotationStep /\ camera_file # NoFile) =>
             /\ Minute(now') = 0
             /\ Second(now') = 0
             /\ camera_file' = FileName(now', variant)]_vars

\* C20: a button event with channel > 2 stops the recording if there is
\* one, clears the display and exits, and leaves the program as the quit
\* channel 2 would have left it.
C20_UnexpectedChannelQuits ==
    [][(ticks' = ticks + 1 /\ channel' > 2) =>
          /\ main' = "exited"
          /\ display' = BLANK
          /\ camera_file' = NoFile
          /\ LET Q == IF variant = "block"
                      THEN TouchA(Script, 2, now', 0)
                      ELSE VRTouchA(Script, 2)
             IN  /\ display' = Q.display
                 /\ camera_file' = Q.camera_file
                 /\ recording' = Q.recording
                 /\ calls' = Q.calls
                 /\ main' = (IF Q.raised THEN "crashed" ELSE Q.exit)]_vars

----------------------------------------------------------------------------
(* Further properties of the main loop's ticks, checked under Spec.        *)

\* The frame has a contour of at least min_area whose origin is outside the
\* excluded rectangle.
HasMotion(frame) ==
    \E c \in frame :
        /\ c.area >= min_area
        /\ (c.x < x_min \/ c.x > x_max \/ c.y < y_min \/ c.y > y_max)

Recording2 == {"ACTIVE", "RECORDING"}

\* C23: a tick from ACTIVE or RECORDING with candidate ACTIVE or RECORDING,
\* or from IDLE with candidate IDLE, calls neither start() nor stop() and
\* leaves the session as it is; the state becomes the candidate.
C23_NoSessionChange ==
    [][(/\ TickStep
        /\ key' # "q"
        /\ \/ state \in Recording2 /\ new_state' \in Recording2
           \/ state = "IDLE" /\ new_state' = "IDLE") =>
          /\ NewCalls = <<>>
          /\ recording' = recording
          /\ camera_file' = camera_file
          /\ annotation_timer' = annotation_timer
          /\ display' = display
          /\ state' = new_state'
          /\ main' = "running"]_vars

C23_Witness ==
    /\ ticks >= 4
    /\ calls = <<"start">>
    /\ state = "RECORDING"
    /\ new_state = "RECORDING"
    /\ SessionOpen
    /\ annotation_timer = "armed"
    /\ main = "running"

\* C24: a tick past the first sets last_active_time to the current time if
\* and only if the frame has a surviving motion region; every other tick,
\* a tick that stops the session included, leaves it unchanged.
C24_LastActiveIffMotion ==
    [][TickStep =>
          /\ HasMotion(cnts') => last_active_time' = now'
          /\ ~HasMotion(cnts') => last_active_time' = last_active_time
          /\ (last_active_time' = now') <=> HasMotion(cnts')]_vars

C24_Witness ==
    /\ calls = <<"start", "stop">>
    /\ state = "IDLE"
    /\ ~HasMotion(cnts)
    /\ last_active_time > 0
    /\ now - last_active_time > idle_timeout

\* C25: the first tick only initialises the background model: whatever the
\* frame contains, the state stays IDLE, last_active_time is unchanged and
\* neither start() nor stop() is called.
C25_FirstTickOnlyInitialises ==
    [][(ticks' = ticks + 1 /\ ~avg) =>
          /\ avg'
          /\ state = "IDLE" /\ state' = "IDLE"
          /\ new_state' = new_state
          /\ last_active_time' = last_active_time
          /\ NewCalls = <<>>
          /\ ~recording' /\ camera_file' = NoFile
          /\ main' = "running"]_vars

C25_Witness ==
    /\ ticks = 1
    /\ avg
    /\ HasMotion(cnts)
    /\ state = "IDLE"
    /\ calls = <<>>
    /\ last_active_time = MinYearTime

\* C27: a tick in state IDLE with no surviving motion region leaves the
\* state IDLE: the candidate is never RECORDING while the state is IDLE.
C27_IdleStaysIdle ==
    [][(TickStep /\ state = "IDLE" /\ ~HasMotion(cnts')) =>
          /\ new_state' # "RECORDING"
          /\ state' = "IDLE"]_vars

----------------------------------------------------------------------------
(* Further properties of the fixed-block script, checked under SpecBlk.    *)

\* C21: a rotation callback that runs after the session has been stopped
\* does nothing: it raises nothing on the closed file, starts no session
\* and arms no rotation timer, and the flag stays False.
C21_LateRotationIsNoOp ==
    [][(RotationStep /\ camera_file = NoFile) =>
          /\ cb_err' = cb_err
          /\ calls' = calls
          /\ camera_file' = NoFile
          /\ recording_timer' # "armed"
          /\ ~recording']_vars

\* C22: button A touched while a session is open executes no start(): the
\* handler returns with the session as it was.
C22_NoStartWhileOpen ==
    [][(variant = "block" /\ ticks' = ticks + 1 /\ channel' = 0 /\ recording) =>
          /\ StartsIn(NewCalls) = 0
          /\ main' = "running"
          /\ camera_file' = camera_file
          /\ recording_timer' = recording_timer]_vars

\* C26: whenever start() is called, and with it ensure_space, no recording
\* is open (continue_recording has closed its file before it calls
\* start()), and the file being written is not removed.
C26_EnsureSpaceSparesOpenFile ==
    [][(StartsIn(NewCalls) > 0 /\ ~RotationStep) =>
          /\ camera_file = NoFile
          /\ \A f \in dir : f.name = camera_file => f.name \in Names(dir')]_vars

\* C28: every pending annotation timer is the one annotation_timer refers
\* to: no armed timer has lost its reference.
C28_OneAnnotationTimer == orphans = 0

----------------------------------------------------------------------------
(* The main loop against button C, checked under SpecBtn.                  *)

StopsIn(c) == Cardinality({i \in 1..Len(c) : c[i] = "stop"})

\* C29: once button C has been handled, a tick of the main loop calls
\* stop() at most once for each session that is open: never for a session
\* the button's handler has stopped.
C29_StopOncePerSession ==
    [][(TickStep /\ channel = 2) =>
          StopsIn(NewCalls) <=
              StartsIn(NewCalls) + (IF camera_file # NoFile THEN 1 ELSE 0)]_vars

====
